---- MODULE Spec2Model ----
(***************************************************************************)
(* Model of backupGDrive.pyw: one-way incremental backup of the configured *)
(* source trees into DEST_ROOT.  The state is the source trees, the        *)
(* destination tree, the process-wide fingerprint registry and the         *)
(* position of main / the two walkers.  Times are counted in ticks of      *)
(* 1/TicksPerSec second, so that int(st_mtime) really truncates.           *)
(***************************************************************************)
EXTENDS Integers, Sequences, FiniteSets, TLC

\* ------------------------------------------------------------------ bounds
MaxRuns == 2        \* launches of the program in one behaviour
MaxMods == 1        \* modifications of source files between launches
MaxFaults == 1      \* I/O operations that fail in one behaviour
TicksPerSec == 2    \* resolution of a modification time below one second

\* --------------------------------------------------------- configuration
\* TASKS: (source root, destination subfolder, check_hidden)
TASKS ==
  << [subfolder |-> "OneDrive_Docs", check_hidden |-> FALSE],
     [subfolder |-> "Local_Documents", check_hidden |-> TRUE] >>

DEST_ROOT == <<"Arch">>

\* the tolerance of the modification-time comparison, in seconds
TOLERANCE == 5

Tasks == 1..Len(TASKS)

\* ---------------------------------------------------- the source trees
\* Every regular file of the source trees: its task and its path relative
\* to the task's source root.  Directories are the prefixes of these paths.
SrcTree ==
  << [task |-> 1, path |-> <<"x", "a.txt">>],
     [task |-> 1, path |-> <<"y", "a.txt">>],
     [task |-> 2, path |-> <<"vis", ".h", "a.txt">>],
     [task |-> 2, path |-> <<".hid", "c.txt">>],
     [task |-> 2, path |-> <<"e.txt">>],
     [task |-> 2, path |-> <<".d.txt">>] >>

Files == 1..Len(SrcTree)

\* Entries (task, path) that carry FILE_ATTRIBUTE_HIDDEN.
HiddenFlagged ==
  { <<2, <<".hid">>>>, <<2, <<".d.txt">>>>,
    <<2, <<"vis", ".h">>>>, <<2, <<"vis", ".h", "a.txt">>>> }

Sizes == {1, 2}

\* Modification times a source file can carry: a base time, the same second
\* one tick later, and more than TOLERANCE seconds later.
BaseSec == 2 * TOLERANCE
BaseTime == BaseSec * TicksPerSec
Mtimes == { BaseTime, BaseTime + 1, BaseTime + TOLERANCE * TicksPerSec + 1 }

\* The time at which a run writes (later than every source time).
RunTime == (BaseSec + 2 * TOLERANCE) * TicksPerSec

\* ------------------------------------------------------------ path helpers
IsPrefix(p, q) == Len(p) <= Len(q) /\ SubSeq(q, 1, Len(p)) = p

Prefixes(p) == { SubSeq(p, 1, n) : n \in 1..Len(p) }

Parent(p) == SubSeq(p, 1, Len(p) - 1)

FileName(f) == SrcTree[f].path[Len(SrcTree[f].path)]

\* the directories of task t's source tree, the root (<<>>) included
DirsOf(t) ==
  UNION { {SubSeq(SrcTree[f].path, 1, n) : n \in 0..(Len(SrcTree[f].path) - 1)} :
            f \in {g \in Files : SrcTree[g].task = t} }

SubdirsOf(t, d) == { p \in DirsOf(t) : Len(p) = Len(d) + 1 /\ IsPrefix(d, p) }

FilesIn(t, d) ==
  { f \in Files : SrcTree[f].task = t /\ Parent(SrcTree[f].path) = d }

FilesUnder(t, d) ==
  { f \in Files : SrcTree[f].task = t /\ IsPrefix(d, SrcTree[f].path) }

\* the immediate children of task t's source root (Path.iterdir)
TopEntries(t) ==
  { SubSeq(SrcTree[f].path, 1, 1) : f \in {g \in Files : SrcTree[g].task = t} }

\* ------------------------------------------------------- pure functions
\* is_hidden: the hidden attribute of an entry; a failed read is "not hidden".
is_hidden_never(t, entry, fault) == FALSE

is_hidden(t, entry, fault) ==
  IF fault THEN FALSE ELSE <<t, entry>> \in HiddenFlagged

\* get_file_fingerprint: (name, size, int(mtime)), or None (here <<>>, which
\* like None is false in "if fingerprint:") when stat fails.
get_file_fingerprint_no_size(name, st, fault) ==
  IF fault THEN <<>> ELSE <<name, st.mtime \div TicksPerSec>>

get_file_fingerprint(name, st, fault) ==
  IF fault THEN <<>> ELSE <<name, st.size, st.mtime \div TicksPerSec>>

\* "if fingerprint: if fingerprint in SEEN_FILES_FINGERPRINTS: return"
is_duplicate_never(fingerprint, seen) == FALSE

is_duplicate(fingerprint, seen) == fingerprint # <<>> /\ fingerprint \in seen

\* "if fingerprint: ... SEEN_FILES_FINGERPRINTS.add(fingerprint)"
add_fingerprint_skipped(fingerprint, seen) == seen

add_fingerprint(fingerprint, seen) ==
  IF fingerprint # <<>> THEN seen \cup {fingerprint} ELSE seen

size_match_always(src_stat, dst_stat) == TRUE

size_match(src_stat, dst_stat) == src_stat.size = dst_stat.size

time_match_no_tolerance(src_stat, dst_stat) == src_stat.mtime <= dst_stat.mtime

time_match_strict(src_stat, dst_stat) == src_stat.mtime < dst_stat.mtime

time_match(src_stat, dst_stat) ==
  src_stat.mtime <= dst_stat.mtime + TOLERANCE * TicksPerSec

\* dst_file.parent.mkdir(parents=True, exist_ok=True)
mkdir_parents(dirs, dst_file) == dirs \cup Prefixes(Parent(dst_file))

\* shutil.copy2: content and metadata (size and modification time)
copy2(src_stat) == [size |-> src_stat.size, mtime |-> src_stat.mtime]

\* a copy that failed after the destination was opened for writing
partial_copy == [size |-> 0, mtime |-> RunTime]

IoFaults == {"none", "exists", "stat", "mkdir", "copy", "partial"}

\* process_file(src_file, dst_file) on the state S = [seen, files, dirs]:
\* the state after the call, its outcome and the destination operations it
\* performed.  fpFault: stat fails in get_file_fingerprint; ioFault: the
\* operation inside the try block that raises.
process_file(S, name, src_stat, dst_file, fpFault, ioFault) ==
  LET fingerprint == get_file_fingerprint(name, src_stat, fpFault)
      seen1 == add_fingerprint(fingerprint, S.seen)
      R(outcome, files, dirs, io) ==
        [seen |-> seen1, files |-> files, dirs |-> dirs,
         outcome |-> outcome, io |-> io, fingerprint |-> fingerprint]
      dst_exists == dst_file \in DOMAIN S.files
      unchanged ==
        /\ dst_exists
        /\ size_match(src_stat, S.files[dst_file])
        /\ time_match(src_stat, S.files[dst_file])
      dirs1 == mkdir_parents(S.dirs, dst_file)
      checked == IF dst_exists THEN {"exists", "stat"} ELSE {"exists"}
      put(meta) == [p \in DOMAIN S.files \cup {dst_file} |->
                      IF p = dst_file THEN meta ELSE S.files[p]]
  IN  IF is_duplicate(fingerprint, S.seen)
        THEN [seen |-> S.seen, files |-> S.files, dirs |-> S.dirs,
              outcome |-> "SkippedDuplicate", io |-> {},
              fingerprint |-> fingerprint]
      ELSE IF ioFault = "exists"
        THEN R("Failed", S.files, S.dirs, {"exists"})
      ELSE IF dst_exists /\ ioFault = "stat"
        THEN R("Failed", S.files, S.dirs, checked)
      ELSE IF unchanged
        THEN R("SkippedUnchanged", S.files, S.dirs, checked)
      ELSE IF ioFault = "mkdir"
        THEN R("Failed", S.files, S.dirs, checked \cup {"mkdir"})
      ELSE IF ioFault = "copy"
        THEN R("Failed", S.files, dirs1, checked \cup {"mkdir", "copy"})
      ELSE IF ioFault = "partial"
        THEN R("Failed", put(partial_copy), dirs1,
               checked \cup {"mkdir", "copy"})
      ELSE R("Copied", put(copy2(src_stat)), dirs1,
             checked \cup {"mkdir", "copy"})

\* Path.exists() of a task's source root
exists_always(state) == TRUE

exists(state) == state # "missing"

\* "current_dst_dir = dst_folder / rel_path", rel_path relative to src_folder
current_dst_dir_flat(dst_folder, src_folder, root_path) == dst_folder

current_dst_dir(dst_folder, src_folder, root_path) ==
  dst_folder \o SubSeq(root_path, Len(src_folder) + 1, Len(root_path))

\* "full_dest = Path(DEST_ROOT) / subfolder"
full_dest(t) == DEST_ROOT \o <<TASKS[t].subfolder>>

\* ------------------------------------------------------------------ state
VARIABLES
  srcMeta,      \* source file -> [size, mtime]
  rootState,    \* task -> "present" | "missing" | "unlistable" (source root)
  dstFiles,     \* destination path -> [size, mtime], the files under DEST_ROOT
  dstDirs,      \* the directories that exist at the destination
  SEEN_FILES_FINGERPRINTS,
  pc,           \* "main" | "top" | "walk" | "done" | "crashed" | "exited"
  task,         \* index into TASKS of main's for loop
  topPending,   \* entries sync_documents_special's iterdir has not yielded yet
  walk,         \* the running sync_folder_recursive / os.walk
  outcome,      \* source file -> how process_file ended for it in this run
  fpOf,         \* source file -> the fingerprint computed for it in this run
  last,         \* the most recent process_file call
  hist,         \* source file -> what earlier runs did with it
  hiddenReadFailed, \* top-level entries whose hidden attribute read failed
  listFailed,   \* (task, directory) pairs os.walk could not list in this run
  dstAtStart,   \* the destination when this run was launched
  runFaulted,   \* an I/O operation has failed in this run
  runs, mods, faults

vars ==
  << srcMeta, rootState, dstFiles, dstDirs, SEEN_FILES_FINGERPRINTS, pc, task,
     topPending, walk, outcome, fpOf, last, hist, hiddenReadFailed, listFailed,
     dstAtStart, runFaulted, runs, mods, faults >>

Absent == [size |-> -1, mtime |-> -1]

NoWalk ==
  [src_folder |-> <<>>, dst_folder |-> <<>>, stack |-> <<>>,
   root_path |-> <<>>, files |-> {}, ret |-> "main"]

NoCall ==
  [file |-> 0, dst |-> <<>>, fingerprint |-> <<>>, io |-> {},
   outcome |-> "none", pre |-> Absent, src |-> Absent, hist |-> "new",
   fpFault |-> FALSE, ioFault |-> "none", registered |-> FALSE,
   wrote |-> FALSE]

\* the destination path the walkers compute for source file f
MirrorPath(f) == full_dest(SrcTree[f].task) \o SrcTree[f].path

\* A destination that holds some files, with the directories above them.
DirsAbove(files) == UNION { Prefixes(Parent(p)) : p \in DOMAIN files }

\* Destination files a first run can find: none, or an earlier copy of
\* source file 1 (same size and exactly TOLERANCE seconds older, or one tick
\* more than that older, or of another size).
InitialDst ==
  { << >> } \cup
  { [p \in {MirrorPath(1)} |-> m] :
      m \in { [size |-> 1, mtime |-> BaseTime - TOLERANCE * TicksPerSec],
              [size |-> 1, mtime |-> BaseTime - TOLERANCE * TicksPerSec - 1],
              [size |-> 2, mtime |-> BaseTime] } }

InitialRoots ==
  { [t \in Tasks |-> "present"],
    [t \in Tasks |-> IF t = 1 THEN "missing" ELSE "present"],
    [t \in Tasks |-> IF t = 1 THEN "unlistable" ELSE "present"],
    [t \in Tasks |-> IF t = 2 THEN "missing" ELSE "present"],
    [t \in Tasks |-> IF t = 2 THEN "unlistable" ELSE "present"] }

\* The source trees a first run can find: files 1, 2 and 3 carry the same
\* name, so they share a fingerprint when their sizes and seconds agree.
InitialSrc ==
  { [f \in Files |->
       IF f = 2 THEN [size |-> s2, mtime |-> m2]
       ELSE IF f = 3 THEN [size |-> 1, mtime |-> m3]
       ELSE [size |-> 1, mtime |-> BaseTime]] :
    s2 \in Sizes, m2 \in {BaseTime, BaseTime + 1},
    m3 \in {BaseTime, BaseTime + TOLERANCE * TicksPerSec + 1} }

\* The state when main reaches its loop in the first run.
Launched ==
  /\ dstDirs = DirsAbove(dstFiles)
  /\ SEEN_FILES_FINGERPRINTS = {}
  /\ pc = "main"
  /\ task = 1
  /\ topPending = {}
  /\ walk = NoWalk
  /\ outcome = [f \in Files |-> "none"]
  /\ fpOf = [f \in Files |-> <<>>]
  /\ last = NoCall
  /\ hist = [f \in Files |-> "new"]
  /\ hiddenReadFailed = {}
  /\ listFailed = {}
  /\ dstAtStart = [files |-> dstFiles, dirs |-> dstDirs]
  /\ runFaulted = FALSE
  /\ runs = 1
  /\ mods = 0

Init ==
  /\ srcMeta \in InitialSrc
  /\ rootState \in InitialRoots
  /\ dstFiles \in InitialDst
  /\ faults = 0
  /\ Launched

\* ---------------------------------------------------------------- actions
FaultCost(hf, fpFault, ioFault) ==
  (IF hf THEN 1 ELSE 0) + (IF fpFault THEN 1 ELSE 0)
    + (IF ioFault # "none" THEN 1 ELSE 0)

HistAfterCall(h, result, existed) ==
  IF result = "Copied" /\ ~existed THEN "copied"
  ELSE IF result = "Copied" THEN "other"
  ELSE h

\* One call process_file(src_file, dst_file) for source file f; hf: the
\* caller's read of the hidden attribute failed before it.
Call(f, dst_file, hf, fpFault, ioFault) ==
  LET r == process_file(
             [seen |-> SEEN_FILES_FINGERPRINTS, files |-> dstFiles,
              dirs |-> dstDirs],
             FileName(f), srcMeta[f], dst_file, fpFault, ioFault)
      existed == dst_file \in DOMAIN dstFiles
  IN  /\ faults + FaultCost(hf, fpFault, ioFault) <= MaxFaults
      /\ faults' = faults + FaultCost(hf, fpFault, ioFault)
      /\ runFaulted' = (runFaulted \/ FaultCost(hf, fpFault, ioFault) > 0)
      /\ SEEN_FILES_FINGERPRINTS' = r.seen
      /\ dstFiles' = r.files
      /\ dstDirs' = r.dirs
      /\ outcome' = [outcome EXCEPT ![f] = r.outcome]
      /\ fpOf' = [fpOf EXCEPT ![f] = r.fingerprint]
      /\ hist' = [hist EXCEPT ![f] = HistAfterCall(hist[f], r.outcome, existed)]
      /\ last' =
           [file |-> f, dst |-> dst_file, fingerprint |-> r.fingerprint,
            io |-> r.io, outcome |-> r.outcome,
            pre |-> IF existed THEN dstFiles[dst_file] ELSE Absent,
            src |-> srcMeta[f], hist |-> hist[f],
            fpFault |-> fpFault, ioFault |-> ioFault,
            registered |-> r.fingerprint \in SEEN_FILES_FINGERPRINTS,
            wrote |-> (r.files # dstFiles \/ r.dirs # dstDirs)]

NoCallVars ==
  UNCHANGED << dstFiles, dstDirs, SEEN_FILES_FINGERPRINTS, outcome, fpOf, last,
               hist >>

EnvVars == UNCHANGED << srcMeta, rootState, dstAtStart, runs, mods >>

RECURSIVE DropEmpty(_)
DropEmpty(stack) ==
  IF stack # <<>> /\ stack[Len(stack)] = {}
    THEN DropEmpty(SubSeq(stack, 1, Len(stack) - 1))
    ELSE stack

\* sync_folder_recursive(src_folder, dst_folder) up to the first directory
\* os.walk yields; os.walk yields nothing for a directory it cannot list.
BeginWalk(src_folder, dst_folder, listable, ret) ==
  [src_folder |-> src_folder, dst_folder |-> dst_folder,
   stack |-> IF listable THEN << {src_folder} >> ELSE << >>,
   root_path |-> src_folder, files |-> {}, ret |-> ret]

\* main's loop, a task without check_hidden: sync_folder_recursive(src, full_dest)
StartRecursive ==
  /\ pc = "main" /\ task <= Len(TASKS) /\ ~TASKS[task].check_hidden
  /\ IF ~exists(rootState[task])
       THEN /\ task' = task + 1
            /\ UNCHANGED << pc, walk >>
       ELSE /\ pc' = "walk"
            /\ walk' = BeginWalk(<<>>, full_dest(task),
                                 rootState[task] = "present", "main")
            /\ task' = task
  /\ UNCHANGED << topPending, hiddenReadFailed, listFailed, runFaulted, faults >>
  /\ NoCallVars /\ EnvVars

\* main's loop, a task with check_hidden: sync_documents_special up to its
\* for loop; iterdir of a root that cannot be listed raises, and nothing
\* catches it.
StartFiltered ==
  /\ pc = "main" /\ task <= Len(TASKS) /\ TASKS[task].check_hidden
  /\ IF ~exists(rootState[task])
       THEN /\ task' = task + 1
            /\ UNCHANGED << pc, topPending >>
       ELSE IF rootState[task] # "present"
       THEN /\ pc' = "crashed"
            /\ UNCHANGED << task, topPending >>
       ELSE /\ pc' = "top"
            /\ topPending' = TopEntries(task)
            /\ task' = task
  /\ UNCHANGED << walk, hiddenReadFailed, listFailed, runFaulted, faults >>
  /\ NoCallVars /\ EnvVars

\* One iteration of "for item in src_root.iterdir()" on a hidden entry.
TopSkipHidden ==
  /\ pc = "top"
  /\ \E item \in topPending :
       /\ is_hidden(task, item, FALSE)
       /\ topPending' = topPending \ {item}
  /\ UNCHANGED << pc, task, walk, hiddenReadFailed, listFailed, runFaulted, faults >>
  /\ NoCallVars /\ EnvVars

\* One iteration on a directory that is not hidden, or whose hidden attribute
\* cannot be read (hf): sync_folder_recursive(item, dst_root / item.name).
TopDescend ==
  /\ pc = "top"
  /\ \E item \in topPending, hf \in BOOLEAN :
       /\ item \in DirsOf(task)
       /\ hf => faults < MaxFaults
       /\ ~is_hidden(task, item, hf)
       /\ topPending' = topPending \ {item}
       /\ walk' = BeginWalk(item, full_dest(task) \o item, TRUE, "top")
       /\ pc' = "walk"
       /\ faults' = faults + (IF hf THEN 1 ELSE 0)
       /\ runFaulted' = (runFaulted \/ hf)
       /\ hiddenReadFailed' =
            IF hf THEN hiddenReadFailed \cup {item} ELSE hiddenReadFailed
  /\ UNCHANGED << task, listFailed >>
  /\ NoCallVars /\ EnvVars

\* One iteration on a regular file that is not hidden, or whose hidden
\* attribute cannot be read: process_file(item, dst_root / item.name).
TopFile ==
  /\ pc = "top"
  /\ \E item \in topPending, hf \in BOOLEAN, fpFault \in BOOLEAN,
        ioFault \in IoFaults :
       /\ item \notin DirsOf(task)
       /\ ~is_hidden(task, item, hf)
       /\ \E f \in FilesIn(task, <<>>) :
            /\ SrcTree[f].path = item
            /\ Call(f, full_dest(task) \o item, hf, fpFault, ioFault)
       /\ topPending' = topPending \ {item}
       /\ hiddenReadFailed' =
            IF hf THEN hiddenReadFailed \cup {item} ELSE hiddenReadFailed
  /\ UNCHANGED << pc, task, walk, listFailed >>
  /\ EnvVars

\* iterdir is exhausted: sync_documents_special returns to main's loop.
TopDone ==
  /\ pc = "top" /\ topPending = {}
  /\ pc' = "main"
  /\ task' = task + 1
  /\ UNCHANGED << topPending, walk, hiddenReadFailed, listFailed, runFaulted, faults >>
  /\ NoCallVars /\ EnvVars

\* os.walk yields the next directory, top-down: a directory before its
\* subdirectories, each subtree whole, siblings in any order.  A directory
\* whose listing fails (lf) is passed over with all it holds: os.walk is
\* called without onerror, so the error is dropped.
WalkDir ==
  /\ pc = "walk" /\ walk.files = {} /\ walk.stack # <<>>
  /\ \E d \in walk.stack[Len(walk.stack)], lf \in BOOLEAN :
       /\ lf => faults < MaxFaults
       /\ walk' =
            [walk EXCEPT
               !.root_path = d,
               !.files = IF lf THEN {} ELSE FilesIn(task, d),
               !.stack = DropEmpty(
                  [walk.stack EXCEPT ![Len(walk.stack)] = @ \ {d}]
                    \o << IF lf THEN {} ELSE SubdirsOf(task, d) >>)]
       /\ faults' = faults + (IF lf THEN 1 ELSE 0)
       /\ runFaulted' = (runFaulted \/ lf)
       /\ listFailed' = IF lf THEN listFailed \cup {<<task, d>>} ELSE listFailed
  /\ UNCHANGED << pc, task, topPending, hiddenReadFailed >>
  /\ NoCallVars /\ EnvVars

\* "for file in files: process_file(root_path / file, current_dst_dir / file)"
WalkFile ==
  /\ pc = "walk"
  /\ \E f \in walk.files, fpFault \in BOOLEAN, ioFault \in IoFaults :
       /\ Call(f,
               current_dst_dir(walk.dst_folder, walk.src_folder, walk.root_path)
                 \o << FileName(f) >>,
               FALSE, fpFault, ioFault)
       /\ walk' = [walk EXCEPT !.files = @ \ {f}]
  /\ UNCHANGED << pc, task, topPending, hiddenReadFailed, listFailed >>
  /\ EnvVars

\* os.walk is exhausted: sync_folder_recursive returns to its caller.
WalkDone ==
  /\ pc = "walk" /\ walk.files = {} /\ walk.stack = <<>>
  /\ pc' = walk.ret
  /\ task' = IF walk.ret = "main" THEN task + 1 ELSE task
  /\ walk' = NoWalk
  /\ UNCHANGED << topPending, hiddenReadFailed, listFailed, runFaulted, faults >>
  /\ NoCallVars /\ EnvVars

\* main's loop is over: the run ends normally.
Finish ==
  /\ pc = "main" /\ task > Len(TASKS)
  /\ pc' = "done"
  /\ UNCHANGED << task, topPending, walk, hiddenReadFailed, listFailed, runFaulted, faults >>
  /\ NoCallVars /\ EnvVars

HistAfterModify(h, old, new) ==
  IF h = "copied" /\ new.size # old.size THEN "resized"
  ELSE IF h \in {"copied", "resized"} THEN "other"
  ELSE h

\* Between two runs the user changes a source file.
ModifySource ==
  /\ pc = "exited" /\ mods < MaxMods
  /\ \E f \in Files, size \in Sizes, mtime \in Mtimes :
       LET new == [size |-> size, mtime |-> mtime]
       IN  /\ new # srcMeta[f]
           /\ srcMeta' = [srcMeta EXCEPT ![f] = new]
           /\ hist' = [hist EXCEPT ![f] = HistAfterModify(@, srcMeta[f], new)]
  /\ mods' = mods + 1
  /\ UNCHANGED << rootState, dstFiles, dstDirs, SEEN_FILES_FINGERPRINTS, pc,
                  task, topPending, walk, outcome, fpOf, last,
                  hiddenReadFailed, listFailed, dstAtStart, runFaulted, runs, faults >>

\* The process exits (normally, or on the uncaught exception): the registry
\* and everything else it held in memory are gone.
Exit ==
  /\ pc \in {"done", "crashed"}
  /\ pc' = "exited"
  /\ SEEN_FILES_FINGERPRINTS' = {}
  /\ task' = 1
  /\ topPending' = {}
  /\ walk' = NoWalk
  /\ outcome' = [f \in Files |-> "none"]
  /\ fpOf' = [f \in Files |-> <<>>]
  /\ last' = NoCall
  /\ hiddenReadFailed' = {}
  /\ listFailed' = {}
  /\ runFaulted' = FALSE
  /\ UNCHANGED << srcMeta, rootState, dstFiles, dstDirs, hist, dstAtStart,
                  runs, mods, faults >>

\* The program is launched again: module initialisation up to main's loop.
Launch ==
  /\ pc = "exited" /\ runs < MaxRuns
  /\ runs' = runs + 1
  /\ pc' = "main"
  /\ dstAtStart' = [files |-> dstFiles, dirs |-> dstDirs]
  /\ UNCHANGED << srcMeta, rootState, dstFiles, dstDirs,
                  SEEN_FILES_FINGERPRINTS, task, topPending, walk, outcome,
                  fpOf, last, hist, hiddenReadFailed, listFailed, runFaulted, mods,
                  faults >>

\* One run of the program.
Next ==
  \/ StartRecursive
  \/ StartFiltered
  \/ TopSkipHidden
  \/ TopDescend
  \/ TopFile
  \/ TopDone
  \/ WalkDir
  \/ WalkFile
  \/ WalkDone
  \/ Finish

Spec == Init /\ [][Next]_vars

\* Several runs of the program over a source that changes between them,
\* from an empty destination and without I/O failures (none is left to spend).
InitRerun ==
  /\ srcMeta \in InitialSrc
  /\ rootState = [t \in Tasks |-> "present"]
  /\ dstFiles = << >>
  /\ faults = MaxFaults
  /\ Launched

NextRerun ==
  \/ Next
  \/ Exit
  \/ ModifySource
  \/ Launch

SpecRerun == InitRerun /\ [][NextRerun]_vars

\* ------------------------------------------------------------- properties
\* The fingerprint of the data model: (name, size, mtime in whole seconds).
FileFingerprint(f) ==
  << FileName(f), srcMeta[f].size, srcMeta[f].mtime \div TicksPerSec >>

CallMade == last.file # 0

NoFaultInCall == ~last.fpFault /\ last.ioFault = "none"

\* the fingerprint of the last call was computed and already in the registry
AlreadySeen == last.fingerprint # <<>> /\ last.registered

Filtered == { t \in Tasks : TASKS[t].check_hidden }

HiddenTop(t) == { e \in TopEntries(t) : <<t, e>> \in HiddenFlagged }

VisibleTopDirs(t) ==
  { e \in TopEntries(t) : e \in DirsOf(t) /\ <<t, e>> \notin HiddenFlagged }

\* C1: when two source files of one run yield the same fingerprint, the
\* second one is SkippedDuplicate with no destination access at all (no
\* existence check, no mkdir, no copy), whatever its task and destination;
\* so at most one file per fingerprint gets past the duplicate check.
C1_DuplicateSkipped ==
  /\ (CallMade /\ AlreadySeen) =>
       /\ last.outcome = "SkippedDuplicate"
       /\ last.io = {}
       /\ ~last.wrote
  /\ \A f, g \in Files :
       (/\ f # g
        /\ fpOf[f] # <<>> /\ fpOf[g] # <<>>
        /\ FileFingerprint(f) = FileFingerprint(g))
       => (outcome[f] = "SkippedDuplicate" \/ outcome[g] = "SkippedDuplicate")

\* A file of the second task is skipped as the duplicate of a file the first
\* task copied, and its own destination path does not exist.
C1_Witness ==
  /\ CallMade
  /\ last.outcome = "SkippedDuplicate"
  /\ last.dst \notin DOMAIN dstFiles
  /\ \E f \in Files :
       /\ SrcTree[f].task # SrcTree[last.file].task
       /\ outcome[f] = "Copied"
       /\ FileFingerprint(f) = FileFingerprint(last.file)

\* the destination existed with the source's size and the source is at most
\* TOLERANCE seconds newer
UnchangedCase ==
  /\ CallMade
  /\ last.pre # Absent
  /\ last.pre.size = last.src.size
  /\ last.src.mtime <= last.pre.mtime + TOLERANCE * TicksPerSec

\* C2 as stated (read for runs in which no operation fails): in the
\* unchanged case process_file returns SkippedUnchanged and copies nothing.
C2_AsStated ==
  (UnchangedCase /\ ~runFaulted) =>
    (last.outcome = "SkippedUnchanged" /\ ~last.wrote)

\* C2, amended: in the unchanged case process_file never copies and leaves
\* the destination files and directories as they were; it returns
\* SkippedUnchanged unless the fingerprint was already registered
\* (SkippedDuplicate) or the existence check or stat failed (Failed).
C2_UnchangedNoCopy ==
  UnchangedCase =>
    /\ ~last.wrote
    /\ "copy" \notin last.io /\ "mkdir" \notin last.io
    /\ dstFiles[last.dst] = last.pre
    /\ IF AlreadySeen THEN last.outcome = "SkippedDuplicate"
       ELSE IF last.ioFault \in {"exists", "stat"} THEN last.outcome = "Failed"
       ELSE last.outcome = "SkippedUnchanged"

\* The source is newer than the destination, inside the tolerance, and the
\* call ends SkippedUnchanged.
C2_Witness ==
  /\ UnchangedCase
  /\ last.src.mtime > last.pre.mtime
  /\ last.outcome = "SkippedUnchanged"

\* the destination existed and has another size, or the source is more than
\* TOLERANCE seconds newer
ChangedCase ==
  /\ CallMade
  /\ last.pre # Absent
  /\ \/ last.pre.size # last.src.size
     \/ last.src.mtime > last.pre.mtime + TOLERANCE * TicksPerSec

\* C3 as stated (read for runs in which no operation fails): in the changed
\* case process_file copies and the destination gets the source's size.
C3_AsStated ==
  (ChangedCase /\ ~runFaulted) =>
    /\ last.outcome = "Copied"
    /\ last.dst \in DOMAIN dstFiles
    /\ dstFiles[last.dst].size = last.src.size

\* C3, amended: in the changed case, when the fingerprint was not already
\* registered in this run and no operation fails, process_file copies and
\* the destination gets the source's size; with the fingerprint already
\* registered nothing is copied.
C3_ChangedCopied ==
  ChangedCase =>
    /\ (NoFaultInCall /\ ~AlreadySeen) =>
         /\ last.outcome = "Copied"
         /\ last.dst \in DOMAIN dstFiles
         /\ dstFiles[last.dst].size = last.src.size
    /\ AlreadySeen =>
         (last.outcome = "SkippedDuplicate" /\ dstFiles[last.dst] = last.pre)

\* Same size, source newer by more than the tolerance: copied.
C3_Witness ==
  /\ ChangedCase
  /\ last.pre.size = last.src.size
  /\ last.outcome = "Copied"
  /\ dstFiles[last.dst] = last.src

\* C4 as stated (read for runs in which no operation fails): after the run
\* every file below a non-hidden top-level directory of a FilteredTopLevel
\* root is present at its mirrored path.
C4_AsStated ==
  (pc = "done" /\ ~runFaulted) =>
    \A t \in Filtered : rootState[t] = "present" =>
      \A e \in VisibleTopDirs(t) : \A f \in FilesUnder(t, e) :
        MirrorPath(f) \in DOMAIN dstFiles

\* os.walk listed every directory from top-level entry e down to file f
Listed(t, e, f) ==
  \A d \in Prefixes(Parent(SrcTree[f].path)) :
    IsPrefix(e, d) => <<t, d>> \notin listFailed

\* C4, amended: after the run every file below a non-hidden top-level
\* directory of a FilteredTopLevel root, hidden-flagged or not, whose
\* directories could be listed has been passed to process_file, and it is
\* present at its mirrored path unless the call ended SkippedDuplicate or
\* Failed; a copied file carries the source's size and time there.
C4_SubtreeMirrored ==
  pc = "done" =>
    \A t \in Filtered : rootState[t] = "present" =>
      \A e \in VisibleTopDirs(t) : \A f \in FilesUnder(t, e) :
        /\ Listed(t, e, f) => outcome[f] # "none"
        /\ outcome[f] \in {"Copied", "SkippedUnchanged"} =>
             MirrorPath(f) \in DOMAIN dstFiles
        /\ outcome[f] = "Copied" => dstFiles[MirrorPath(f)] = srcMeta[f]

\* The hidden-flagged file inside the hidden-flagged subdirectory of the
\* non-hidden top-level directory has been copied to its mirrored path.
C4_Witness ==
  /\ pc = "done"
  /\ outcome[3] = "Copied"
  /\ <<2, SrcTree[3].path>> \in HiddenFlagged
  /\ <<2, Parent(SrcTree[3].path)>> \in HiddenFlagged
  /\ MirrorPath(3) \in DOMAIN dstFiles

\* nothing at or below top-level entry e of task t has reached process_file
\* or been created at the destination in this run
Untouched(t, e) ==
  /\ \A f \in FilesUnder(t, e) : outcome[f] = "none"
  /\ \A p \in DOMAIN dstFiles :
       IsPrefix(full_dest(t) \o e, p) => p \in DOMAIN dstAtStart.files
  /\ \A d \in dstDirs :
       IsPrefix(full_dest(t) \o e, d) => d \in dstAtStart.dirs

\* C5 as stated: a hidden-flagged top-level entry of a FilteredTopLevel root
\* is never passed to process_file nor descended into.
C5_AsStated ==
  \A t \in Filtered : \A e \in HiddenTop(t) : Untouched(t, e)

\* C5, amended: a hidden-flagged top-level entry of a FilteredTopLevel root
\* whose hidden attribute can be read is never passed to process_file nor
\* descended into, and nothing at or below it is created at the destination
\* (an entry whose attribute read fails is processed as not hidden).
C5_HiddenTopSkipped ==
  \A t \in Filtered : \A e \in HiddenTop(t) \ hiddenReadFailed : Untouched(t, e)

\* The filtered task has run to its end, copying the visible top-level file,
\* with every hidden attribute read.
C5_Witness ==
  /\ pc = "done"
  /\ rootState[2] = "present"
  /\ hiddenReadFailed = {}
  /\ outcome[5] = "Copied"
  /\ outcome[3] # "none"

\* C6: no failure aborts the run.
C6_NoFailureFatal == pc # "crashed"

\* C7: a task whose source root is missing is a no-op: no process_file
\* call, nothing created at the destination, the registry unchanged, no
\* exception, and main's loop goes on with the next task.
C7_MissingRootNoOp ==
  [][ (pc = "main" /\ task <= Len(TASKS) /\ rootState[task] = "missing") =>
        /\ pc' = "main"
        /\ task' = task + 1
        /\ UNCHANGED << dstFiles, dstDirs, SEEN_FILES_FINGERPRINTS, outcome,
                        last >> ]_vars

\* The first root is missing, nothing of it exists at the destination, and
\* the second task has still been run to its end.
C7_Witness ==
  /\ rootState[1] = "missing"
  /\ pc = "done"
  /\ full_dest(1) \notin dstDirs
  /\ \A f \in FilesUnder(1, <<>>) : outcome[f] = "none"
  /\ outcome[5] = "Copied"

\* C8 as stated: a file that an earlier run copied to a destination where it
\* was absent is SkippedUnchanged and untouched in the next runs while its
\* source is unmodified, and is copied again once its size has changed.
C8_AsStated ==
  CallMade =>
    /\ last.hist = "copied" =>
         (last.outcome = "SkippedUnchanged" /\ ~last.wrote)
    /\ last.hist = "resized" =>
         /\ last.outcome = "Copied"
         /\ dstFiles[last.dst].size = last.src.size

\* C8, amended: the same, provided no source file with the same fingerprint
\* was processed earlier in that run (and no operation fails); a copy gives
\* the destination the source's size and modification time.
C8_RerunIncremental ==
  (CallMade /\ NoFaultInCall) =>
    /\ last.outcome = "Copied" => dstFiles[last.dst] = last.src
    /\ (last.hist = "copied" /\ ~AlreadySeen) =>
         /\ last.outcome = "SkippedUnchanged"
         /\ ~last.wrote
         /\ dstFiles[last.dst] = last.src
    /\ (last.hist = "resized" /\ ~AlreadySeen) =>
         /\ last.outcome = "Copied"
         /\ last.pre.size # last.src.size
         /\ dstFiles[last.dst].size = last.src.size

\* A later run has copied again a file whose size changed after an earlier
\* run copied it.
C8_Witness ==
  /\ runs > 1
  /\ CallMade
  /\ last.hist = "resized"
  /\ last.outcome = "Copied"
  /\ \E f \in Files : f # last.file /\ hist[f] = "copied"
                        /\ outcome[f] = "SkippedUnchanged"

\* The candidates the walkers produce when nothing fails, and the
\* destination path of each.
Reached(f) ==
  LET t == SrcTree[f].task
  IN  /\ rootState[t] = "present"
      /\ TASKS[t].check_hidden =>
           ~is_hidden(t, SubSeq(SrcTree[f].path, 1, 1), FALSE)

CandidateDst(f) ==
  LET t == SrcTree[f].task
      path == SrcTree[f].path
      src_folder == IF TASKS[t].check_hidden THEN SubSeq(path, 1, 1) ELSE <<>>
  IN  IF TASKS[t].check_hidden /\ Len(path) = 1
        THEN full_dest(t) \o path
        ELSE current_dst_dir(full_dest(t) \o src_folder, src_folder,
                             Parent(path)) \o << FileName(f) >>

\* The run that visits the candidates in the order of SrcTree.
RECURSIVE CanonicalRun(_, _)
CanonicalRun(S, f) ==
  IF f > Len(SrcTree) THEN S
  ELSE IF ~Reached(f) THEN CanonicalRun(S, f + 1)
  ELSE LET r == process_file(S, FileName(f), srcMeta[f], CandidateDst(f),
                             FALSE, "none")
       IN  CanonicalRun([seen |-> r.seen, files |-> r.files, dirs |-> r.dirs],
                        f + 1)

CanonicalFiles ==
  CanonicalRun([seen |-> {}, files |-> dstAtStart.files,
                dirs |-> dstAtStart.dirs], 1).files

SizesOf(files) == [p \in DOMAIN files |-> files[p].size]

\* C9 as stated (for runs in which no operation fails): whatever the order
\* of the traversal, the run leaves the same files (paths and sizes) at the
\* destination as the run in the order of SrcTree.
C9_AsStated ==
  (pc = "done" /\ ~runFaulted) => SizesOf(dstFiles) = SizesOf(CanonicalFiles)

DistinctFingerprints ==
  \A f, g \in Files :
    (f # g /\ Reached(f) /\ Reached(g)) => FileFingerprint(f) # FileFingerprint(g)

\* C9, amended: the same, provided no two source files of the run share a
\* fingerprint (and no operation fails).
C9_OrderInsignificant ==
  (pc = "done" /\ ~runFaulted /\ DistinctFingerprints) =>
    SizesOf(dstFiles) = SizesOf(CanonicalFiles)

\* A run over sources of distinct fingerprints that ended by copying the
\* first listed directory's file: the traversal took another order.
C9_Witness ==
  /\ pc = "done" /\ ~runFaulted /\ DistinctFingerprints
  /\ rootState[2] = "missing"
  /\ last.file = 1
  /\ outcome[1] = "Copied" /\ outcome[2] = "Copied"

RegistryState ==
  /\ \A f \in Files : fpOf[f] # <<>> => fpOf[f] \in SEEN_FILES_FINGERPRINTS
  /\ SEEN_FILES_FINGERPRINTS = { fpOf[f] : f \in Files } \ { <<>> }
  /\ \A f \in Files : (outcome[f] # "none" /\ fpOf[f] # <<>>) =>
                         fpOf[f] = FileFingerprint(f)
  /\ (CallMade /\ AlreadySeen) =>
       (last.outcome = "SkippedDuplicate" /\ "copy" \notin last.io)
  /\ (CallMade /\ last.fpFault) => last.fingerprint = <<>>

\* C10: the registry only grows while a run lasts; the fingerprint computed
\* for a file is in it from the call on, however the call ended (Failed and
\* SkippedUnchanged included); it holds exactly the fingerprints computed in
\* the run, so a failed fingerprint adds nothing; and a later file with a
\* registered fingerprint is SkippedDuplicate and not copied.
C10_RegisteredBeforeCopy ==
  [][ /\ RegistryState'
      /\ pc' # "exited" =>
           SEEN_FILES_FINGERPRINTS \subseteq SEEN_FILES_FINGERPRINTS' ]_vars

\* The copy of a file failed, and a later file with the same fingerprint was
\* skipped as its duplicate: neither is at the destination.
C10_Witness ==
  \E f, g \in Files :
    /\ f # g
    /\ outcome[f] = "Failed" /\ fpOf[f] # <<>>
    /\ fpOf[g] = fpOf[f]
    /\ outcome[g] = "SkippedDuplicate"
    /\ last.file = g
    /\ MirrorPath(f) \notin DOMAIN dstFiles
    /\ MirrorPath(g) \notin DOMAIN dstFiles

====
